---- MODULE Spec2Model ----
(***************************************************************************)
(* Model of cocaine/detail/repository.py (ServiceRepository,               *)
(* SecureServiceRepository) and cocaine/detail/secadaptor.py               *)
(* (SecureServiceAdaptor and the token providers).                         *)
(*                                                                         *)
(* Python objects are identified by natural numbers (their identity).      *)
(* The tornado IOLoop is single threaded: every action below is the code   *)
(* one coroutine runs between two suspension points.                       *)
(*                                                                         *)
(* time.time() is a clock of whole seconds that starts at 1 and never runs *)
(* backwards. The value _get_token returns is fixed when it returns, so    *)
(* the resumption of the wrapper is folded into the step that ends         *)
(* _get_token.                                                             *)
(*                                                                         *)
(* The repository's provider is the TVM one in the specifications of the   *)
(* repository and of the adaptors; SpecProvider takes the provider on its  *)
(* own, built for any mod and any keyword arguments.                       *)
(***************************************************************************)
EXTENDS Integers, Naturals, Sequences, FiniteSets, TLC

\* ------------------------------------------------------------------ bounds
MaxCalls == 2       \* intercepted calls issued over one behaviour
MaxTime == 4        \* last clock reading (seconds)
MaxObjs == 4        \* objects the repository may construct
MaxFetches == 3     \* fetch_token() calls made on a provider taken alone

\* --------------------------------------------------------------- constants
\* from .locator import LOCATOR_SERVICE_NAME
LOCATOR_SERVICE_NAME == "locator"

\* service names the callers ask for
Names == {LOCATOR_SERVICE_NAME, "node"}

\* identity of the Locator built by ServiceRepository.__init__
LocatorObj == 0

\* Python's None
None == "None"

\* token_expiration_s values a repository is configured with
Expirations == {0, 2}

VARIABLES
    cache,               \* ServiceRepository._cache: name -> Service identity
    cache_secured,       \* SecureServiceRepository._cache_secured: name -> adaptor identity
    token_expiration_s,  \* SecureServiceRepository._token_expiration_s
    adaptors,            \* identity -> fields of a SecureServiceAdaptor
    made,                \* constructor calls so far: [cls, name, id]
    next_id,             \* identity of the next object constructed
    returned,            \* values returned by the repository: [op, name, obj]
    now,                 \* time.time()
    calls,               \* intercepted calls (wrapper coroutines), in order of issue
    invocations,         \* intercepted method calls received by the wrapped handles
    lifecycle,           \* last connect/disconnect received by a wrapped handle
    fetch_count,         \* adaptor identity -> fetch_token() calls it has made
    issued,              \* adaptor identity -> tokens fetch_token() returned to it
    secure_provider      \* SecureServiceRepository._secure_provider and its traffic

repo_vars == <<cache, cache_secured, token_expiration_s, made, next_id, returned,
               secure_provider>>

call_vars == <<calls, invocations, lifecycle, fetch_count, issued>>

vars == <<cache, cache_secured, token_expiration_s, adaptors, made, next_id,
          returned, now, calls, invocations, lifecycle, fetch_count, issued,
          secure_provider>>

\* ------------------------------------------------------ ServiceRepository

\* d = {k: v} for d[k] = v
DictReset(d, k, v) == [x \in {k} |-> v]

\* d[k] = v on a dict
DictSet(d, k, v) == [x \in DOMAIN d \cup {k} |-> IF x = k THEN v ELSE d[x]]

EmptyDict == [x \in {} |-> 0]

\* create_service without the lookup in self._cache
ConstructsServiceAlways(c, name) == name # LOCATOR_SERVICE_NAME

\* create_service builds a Service(name, locator=...) iff the name is not
\* cached and is not the locator's name
ConstructsService(c, name) ==
    /\ name \notin DOMAIN c
    /\ name # LOCATOR_SERVICE_NAME

\* value create_service(name) returns; nid is the identity a new Service gets
CreateServiceResult(c, name, nid) ==
    IF name \in DOMAIN c THEN c[name]
    ELSE IF name = LOCATOR_SERVICE_NAME THEN LocatorObj
    ELSE nid

\* create_service without self._cache[name] = service
CreateServiceCacheNoStore(c, name, nid) == c

\* create_service storing whatever it returns on a miss, the locator too
CreateServiceCacheStoresAll(c, name, nid) ==
    IF name \in DOMAIN c
    THEN c
    ELSE DictSet(c, name, IF name = LOCATOR_SERVICE_NAME THEN LocatorObj ELSE nid)

\* self._cache after create_service(name)
CreateServiceCache(c, name, nid) ==
    IF ConstructsService(c, name) THEN DictSet(c, name, nid) ELSE c

\* constructor log after create_service(name)
CreateServiceMade(m, c, name, nid) ==
    IF ConstructsService(c, name)
    THEN m \cup {[cls |-> "Service", name |-> name, id |-> nid]}
    ELSE m

\* __init__ of an adaptor whose token and expiry live on the shared provider:
\* a new adaptor sees what an earlier adaptor stored
NewAdaptorSharedState(wrapped, secure, expiration) ==
    IF DOMAIN adaptors = {}
    THEN [wrapped |-> wrapped, secure |-> secure,
          token_expiration_s |-> expiration, token |-> None, to_expire |-> 0]
    ELSE LET first == CHOOSE a \in DOMAIN adaptors :
                          \A b \in DOMAIN adaptors : a <= b
         IN [wrapped |-> wrapped, secure |-> secure,
             token_expiration_s |-> expiration,
             token |-> adaptors[first].token,
             to_expire |-> adaptors[first].to_expire]

\* __init__ that starts the expiry as if a token had just been fetched
NewAdaptorFresh(wrapped, secure, expiration) ==
    [wrapped |-> wrapped,
     secure |-> secure,
     token_expiration_s |-> expiration,
     token |-> None,
     to_expire |-> now + expiration]

\* SecureServiceAdaptor.__init__(wrapped, secure, token_expiration_s)
NewAdaptor(wrapped, secure, expiration) ==
    [wrapped |-> wrapped,
     secure |-> secure,
     token_expiration_s |-> expiration,
     token |-> None,
     to_expire |-> 0]

\* ServiceRepository.create_service(name)
CreateService(name) ==
    /\ ConstructsService(cache, name) => next_id <= MaxObjs
    /\ cache' = CreateServiceCache(cache, name, next_id)
    /\ made' = CreateServiceMade(made, cache, name, next_id)
    /\ next_id' = IF ConstructsService(cache, name) THEN next_id + 1 ELSE next_id
    /\ returned' = returned \cup
          {[op |-> "create_service", name |-> name,
            obj |-> CreateServiceResult(cache, name, next_id)]}
    /\ UNCHANGED <<cache_secured, token_expiration_s, adaptors, now, call_vars,
                   secure_provider>>

\* ------------------------------------------------ SecureServiceRepository

\* create_secure_service without self._cache_secured[name] = service
SecureCacheNoStore(cs, name, aid) == cs

\* self._cache_secured[name] = service
SecureCacheStore(cs, name, aid) == DictSet(cs, name, aid)

\* SecureServiceRepository.create_secure_service(name)
CreateSecureService(name) ==
    IF name \in DOMAIN cache_secured
    THEN /\ returned' = returned \cup
               {[op |-> "create_secure_service", name |-> name,
                 obj |-> cache_secured[name]]}
         /\ UNCHANGED <<cache, cache_secured, token_expiration_s, adaptors,
                        made, next_id, now, call_vars, secure_provider>>
    ELSE LET wrapped == CreateServiceResult(cache, name, next_id)
             aid == IF ConstructsService(cache, name) THEN next_id + 1 ELSE next_id
         IN /\ aid <= MaxObjs
            /\ cache' = CreateServiceCache(cache, name, next_id)
            /\ adaptors' = DictSet(adaptors, aid,
                                   NewAdaptor(wrapped, secure_provider.obj,
                                              token_expiration_s))
            /\ made' = CreateServiceMade(made, cache, name, next_id) \cup
                  {[cls |-> "SecureServiceAdaptor", name |-> name, id |-> aid]}
            /\ cache_secured' = SecureCacheStore(cache_secured, name, aid)
            /\ next_id' = aid + 1
            /\ returned' = returned \cup
                  {[op |-> "create_secure_service", name |-> name, obj |-> aid]}
            /\ fetch_count' = DictSet(fetch_count, aid, 0)
            /\ issued' = DictSet(issued, aid, {})
            /\ UNCHANGED <<token_expiration_s, now, calls, invocations, lifecycle,
                           secure_provider>>

\* --------------------------------------------------------- token provider

\* TVM.TYPE
TVM_TYPE == "TVM"

\* TVM2.TYPE
TVM2_TYPE == "TVM2"

\* tickets the ticket service answers with
Tickets == {"abc", "xyz"}

\* the format string written without its separator
make_token_joined(auth_type, ticket) == auth_type \o ticket

\* _make_token(auth_type, ticket): '{} {}'.format(auth_type, ticket)
make_token(auth_type, ticket) == auth_type \o " " \o ticket

\* mod values a repository or factory is given
Modes == {"", "TVM", "TVM2", "tvm", "TVM3", "TVM "}

\* the names of the keyword arguments passed on as **kwargs
KwargNames == { {}, {"client_id", "client_secret"}, {"client_id"},
               {"client_id", "client_secret", "login"} }

\* Credentials = namedtuple('Credentials', ['client_id', 'client_secret']):
\* Credentials(**kwargs) raises TypeError unless exactly its fields are given
CredentialsAccepts(kw) == kw = {"client_id", "client_secret"}

\* create_ticket_service(mod, endpoints): the name of the Service it builds
create_ticket_service(mod) ==
    IF mod = TVM_TYPE THEN "tvm"
    ELSE IF mod = TVM2_TYPE THEN "tvm2"
    ELSE None

\* create_secure_provider(mod, ticket_service, **kwargs): the provider it
\* returns, or the exception of Credentials(**kwargs)
create_secure_provider(mod, ticket_service, kw) ==
    IF mod = TVM_TYPE
    THEN IF CredentialsAccepts(kw)
         THEN [cls |-> "TVM", type |-> TVM_TYPE, service |-> ticket_service]
         ELSE [cls |-> "TypeError", type |-> None, service |-> None]
    ELSE IF mod = TVM2_TYPE
    THEN IF CredentialsAccepts(kw)
         THEN [cls |-> "TVM2", type |-> TVM2_TYPE, service |-> ticket_service]
         ELSE [cls |-> "TypeError", type |-> None, service |-> None]
    ELSE [cls |-> "Promiscuous", type |-> None, service |-> None]

\* SecureServiceRepository.__init__ (make_secure_adaptor alike): the ticket
\* service and the provider built for mod; requests are the calls received
\* by the ticket service, pending the fetch_token() coroutines waiting for a
\* ticket, fetched the tickets received with the tokens returned for them
ProviderFor(mod, kw) ==
    [mod |-> mod,
     ticket_service |-> create_ticket_service(mod),
     obj |-> create_secure_provider(mod, create_ticket_service(mod), kw),
     requests |-> <<>>,
     pending |-> 0,
     fetched |-> <<>>]

\* the call fetch_token() makes on the ticket service
TicketRequest(p) ==
    IF p.obj.cls = "TVM"
    THEN [service |-> p.obj.service, method |-> "ticket_full",
          args |-> <<"client_id", "client_secret", "client_credentials", "{}">>]
    ELSE [service |-> p.obj.service, method |-> "ticket",
          args |-> <<"client_id", "client_secret">>]

\* everything but the provider
provider_rest == <<cache, cache_secured, token_expiration_s, adaptors, made,
                   next_id, returned, now, calls, invocations, lifecycle,
                   fetch_count, issued>>

\* fetch_token() is called: Promiscuous returns '' at once, TVM and TVM2
\* call the ticket service and wait
ProviderFetch ==
    /\ secure_provider.obj.cls # "TypeError"
    /\ Len(secure_provider.fetched) < MaxFetches
    /\ Len(secure_provider.requests) < MaxFetches
    /\ secure_provider' =
          IF secure_provider.obj.cls = "Promiscuous"
          THEN [secure_provider EXCEPT
                  !.fetched = Append(@, [ticket |-> None, token |-> ""])]
          ELSE [secure_provider EXCEPT
                  !.requests = Append(@, TicketRequest(secure_provider)),
                  !.pending = @ + 1]
    /\ UNCHANGED provider_rest

\* channel.rx.get() returns the ticket: fetch_token() returns
\* _make_token(self.TYPE, ticket)
TicketArrives(ticket) ==
    /\ secure_provider.pending > 0
    /\ secure_provider' =
          [secure_provider EXCEPT
             !.pending = @ - 1,
             !.fetched = Append(@, [ticket |-> ticket,
                                    token |-> make_token(secure_provider.obj.type,
                                                         ticket)])]
    /\ UNCHANGED provider_rest

\* the ticket service call or channel.rx.get() raises: so does fetch_token()
TicketFails ==
    /\ secure_provider.pending > 0
    /\ secure_provider' = [secure_provider EXCEPT !.pending = @ - 1]
    /\ UNCHANGED provider_rest

\* TVM.fetch_token() once the ticket arrived
FetchedToken(ticket) == make_token(TVM_TYPE, ticket)

\* --------------------------------------------------- SecureServiceAdaptor

\* what the callers invoke on an adaptor: method(*args, **kwargs); kwargs is
\* a set of <<key, value>> pairs with distinct keys
CallShapes ==
    { [method |-> "read",  args |-> <<"key">>,        kwargs |-> {}],
      [method |-> "write", args |-> <<"key", "blob">>,
       kwargs |-> {<<"authorization", "forged">>, <<"timeout", "5">>}] }

\* outcomes of the wrapped handle's method
RemoteResults == {"channel", "ServiceError"}

\* trace ids passed to connect
TraceIds == {"trace"}

\* the expiry check written with > for >=
IsExpiredStrict(t, to_expire) == t > to_expire

\* _get_token: time.time() >= self._to_expire
IsExpired(t, to_expire) == t >= to_expire

\* the new expiry written without the clock reading
NewExpiryNoClock(t, expiration) == expiration

\* _get_token: time.time() + self._token_expiration_s
NewExpiry(t, expiration) == t + expiration

\* _get_token keeping the token it already has
StoreTokenKeepFirst(ad, tok, t) ==
    IF ad.token = None
    THEN [ad EXCEPT !.token = tok,
                    !.to_expire = NewExpiry(t, ad.token_expiration_s)]
    ELSE ad

\* _get_token writing the expiry and leaving the token for later
StoreExpiryOnly(ad, tok, t) ==
    [ad EXCEPT !.to_expire = NewExpiry(t, ad.token_expiration_s)]

\* _get_token checking the expiry again after the fetch, and keeping the
\* token another coroutine stored meanwhile
StoreTokenUnlessRefreshed(ad, tok, t) ==
    IF IsExpired(t, ad.to_expire)
    THEN [ad EXCEPT !.token = tok,
                    !.to_expire = NewExpiry(t, ad.token_expiration_s)]
    ELSE ad

\* _get_token after fetch_token() returned tok at time t
StoreToken(ad, tok, t) ==
    [ad EXCEPT !.token = tok,
               !.to_expire = NewExpiry(t, ad.token_expiration_s)]

\* kwargs.setdefault('authorization', <token>): the caller's value wins
InjectTokenDefault(kwargs, tok) ==
    IF \E p \in kwargs : p[1] = "authorization"
    THEN kwargs
    ELSE kwargs \cup {<<"authorization", tok>>}

\* wrapper: kwargs['authorization'] = <token>
InjectToken(kwargs, tok) ==
    {p \in kwargs : p[1] # "authorization"} \cup {<<"authorization", tok>>}

\* wrapper: getattr(self._wrapped, name)(*args, **kwargs)
Invocation(ad, c, i, tok) ==
    [handle |-> ad.wrapped, method |-> c.method, args |-> c.args,
     kwargs |-> InjectToken(c.kwargs, tok), call |-> i]

\* no connect or disconnect was forwarded yet
NoInvocation ==
    [handle |-> LocatorObj, method |-> None, args |-> <<>>, kwargs |-> {}]

\* connect going through the intercepting wrapper
ConnectInvocationSecured(ad, traceid) ==
    [handle |-> ad.wrapped, method |-> "connect", args |-> <<traceid>>,
     kwargs |-> {<<"authorization", ad.token>>}]

\* connect: self._wrapped.connect(traceid)
ConnectInvocation(ad, traceid) ==
    [handle |-> ad.wrapped, method |-> "connect", args |-> <<traceid>>,
     kwargs |-> {}]

\* disconnect: self._wrapped.disconnect()
DisconnectInvocation(ad) ==
    [handle |-> ad.wrapped, method |-> "disconnect", args |-> <<>>,
     kwargs |-> {}]

\* the wrapper turning an exception of the wrapped method into its own error
WrapperResultTranslated(r) ==
    IF r = "ServiceError" THEN "SecureServiceError" ELSE r

\* wrapper: raise gen.Return((yield <wrapped method>)), an exception of the
\* wrapped method propagates as it is
WrapperResult(r) == r

\* the wrapper coroutine as first run; fetch_since is the clock reading of
\* the expiry check while fetch_token() is pending, 0 otherwise; got is the
\* value fetch_token() returned to this coroutine; remote is what the wrapped
\* method answered, result what the caller of the adaptor gets
NewCall(a, shape) ==
    [adaptor |-> a, method |-> shape.method, args |-> shape.args,
     kwargs |-> shape.kwargs, pc |-> "start", fetch_since |-> 0,
     fetched |-> FALSE, got |-> None, token |-> None, invoked |-> 0,
     remote |-> None, result |-> None]

\* SecureServiceAdaptor.__getattr__(name)(*args, **kwargs) up to its first
\* suspension: the expiry check of _get_token, then either the call of
\* fetch_token() or, with the stored token, the call of the wrapped method
Call(a, shape) ==
    /\ a \in DOMAIN adaptors
    /\ Len(calls) < MaxCalls
    /\ LET i == Len(calls) + 1
           ad == adaptors[a]
           c == NewCall(a, shape)
       IN IF IsExpired(now, ad.to_expire)
          THEN /\ calls' = Append(calls, [c EXCEPT !.pc = "fetching",
                                                   !.fetch_since = now,
                                                   !.fetched = TRUE])
               /\ fetch_count' = [fetch_count EXCEPT ![a] = @ + 1]
               /\ UNCHANGED invocations
          ELSE /\ calls' = Append(calls, [c EXCEPT !.pc = "invoked",
                                                   !.token = ad.token,
                                                   !.invoked = 1])
               /\ invocations' = invocations \cup {Invocation(ad, c, i, ad.token)}
               /\ UNCHANGED fetch_count
    /\ UNCHANGED <<repo_vars, adaptors, now, lifecycle, issued>>

\* fetch_token() returns, but the coroutine goes on only once no coroutine
\* issued before it on the adaptor is still waiting for its own fetch
FetchOkInTurn(i, ticket) ==
    /\ i \in DOMAIN calls
    /\ calls[i].pc = "fetching"
    /\ \A j \in 1..(i - 1) :
          calls[j].adaptor = calls[i].adaptor =>
              calls[j].pc \notin {"fetching", "cancelled"}
    /\ LET a == calls[i].adaptor
           tok == FetchedToken(ticket)
           ad == StoreToken(adaptors[a], tok, now)
       IN /\ adaptors' = [adaptors EXCEPT ![a] = ad]
          /\ issued' = [issued EXCEPT ![a] = @ \cup {tok}]
          /\ calls' = [calls EXCEPT ![i] = [@ EXCEPT !.pc = "invoked",
                                                     !.fetch_since = 0,
                                                     !.got = tok,
                                                     !.token = ad.token,
                                                     !.invoked = @ + 1]]
          /\ invocations' = invocations \cup
                {Invocation(ad, calls[i], i, ad.token)}
    /\ UNCHANGED <<repo_vars, now, lifecycle, fetch_count>>

\* fetch_token() returns: _get_token stores token and expiry and returns
\* self._token, the wrapper calls the wrapped method
FetchOk(i, ticket) ==
    /\ i \in DOMAIN calls
    /\ calls[i].pc = "fetching"
    /\ LET a == calls[i].adaptor
           tok == FetchedToken(ticket)
           ad == StoreToken(adaptors[a], tok, now)
       IN /\ adaptors' = [adaptors EXCEPT ![a] = ad]
          /\ issued' = [issued EXCEPT ![a] = @ \cup {tok}]
          /\ calls' = [calls EXCEPT ![i] = [@ EXCEPT !.pc = "invoked",
                                                     !.fetch_since = 0,
                                                     !.got = tok,
                                                     !.token = ad.token,
                                                     !.invoked = @ + 1]]
          /\ invocations' = invocations \cup
                {Invocation(ad, calls[i], i, ad.token)}
    /\ UNCHANGED <<repo_vars, now, lifecycle, fetch_count>>

\* the except clause letting the provider's exception through unwrapped
FailedCallUnwrapped(c) ==
    [c EXCEPT !.pc = "done", !.fetch_since = 0, !.result = "TicketError"]

\* _get_token: except Exception as err: raise SecureServiceError(...), which
\* ends the wrapper coroutine
FailedCall(c) ==
    [c EXCEPT !.pc = "done", !.fetch_since = 0, !.result = "SecureServiceError"]

\* the except clause dropping the stored token
AfterFailedFetchCleared(ad) == [ad EXCEPT !.token = None, !.to_expire = 0]

\* the except clause holding further fetches off for a second
AfterFailedFetchHoldsOff(ad) == [ad EXCEPT !.to_expire = now + 1]

\* _get_token: the except clause assigns nothing to self
AfterFailedFetch(ad) == ad

\* fetch_token() raises: _get_token raises SecureServiceError, which ends
\* the wrapper
FetchFail(i) ==
    /\ i \in DOMAIN calls
    /\ calls[i].pc = "fetching"
    /\ calls' = [calls EXCEPT ![i] = FailedCall(@)]
    /\ adaptors' = [adaptors EXCEPT ![calls[i].adaptor] = AfterFailedFetch(@)]
    /\ UNCHANGED <<repo_vars, now, invocations, lifecycle, fetch_count, issued>>

\* the future of fetch_token() is dropped and never resolves: the coroutine
\* stays suspended at its yield for good
FetchCancelled(i) ==
    /\ i \in DOMAIN calls
    /\ calls[i].pc = "fetching"
    /\ calls' = [calls EXCEPT ![i] = [@ EXCEPT !.pc = "cancelled",
                                               !.fetch_since = 0]]
    /\ UNCHANGED <<repo_vars, adaptors, now, invocations, lifecycle, fetch_count, issued>>

\* the wrapped method's future resolves with r (a value or an exception)
RemoteReturn(i, r) ==
    /\ i \in DOMAIN calls
    /\ calls[i].pc = "invoked"
    /\ calls' = [calls EXCEPT ![i] = [@ EXCEPT !.pc = "done",
                                               !.remote = r,
                                               !.result = WrapperResult(r)]]
    /\ UNCHANGED <<repo_vars, adaptors, now, invocations, lifecycle, fetch_count, issued>>

\* SecureServiceAdaptor.connect(traceid)
Connect(a, traceid) ==
    /\ a \in DOMAIN adaptors
    /\ lifecycle' = ConnectInvocation(adaptors[a], traceid)
    /\ UNCHANGED <<repo_vars, adaptors, now, calls, invocations, fetch_count, issued>>

\* SecureServiceAdaptor.disconnect()
Disconnect(a) ==
    /\ a \in DOMAIN adaptors
    /\ lifecycle' = DisconnectInvocation(adaptors[a])
    /\ UNCHANGED <<repo_vars, adaptors, now, calls, invocations, fetch_count, issued>>

\* time passes
Tick ==
    /\ now < MaxTime
    /\ now' = now + 1
    /\ UNCHANGED <<repo_vars, adaptors, call_vars>>

\* a repository as constructed, its provider apart
InitRepository ==
    /\ cache = EmptyDict
    /\ cache_secured = EmptyDict
    /\ token_expiration_s \in Expirations
    /\ adaptors = EmptyDict
    /\ made = {}
    /\ next_id = 1
    /\ returned = {}
    /\ now = 1
    /\ calls = <<>>
    /\ invocations = {}
    /\ lifecycle = NoInvocation
    /\ fetch_count = EmptyDict
    /\ issued = EmptyDict

\* SecureServiceRepository(mod='TVM', token_expiration_s=...,
\* client_id=..., client_secret=...)
Init ==
    /\ InitRepository
    /\ secure_provider = ProviderFor(TVM_TYPE, {"client_id", "client_secret"})

\* SecureServiceRepository(mod=..., token_expiration_s=..., **kwargs)
InitProvider ==
    /\ InitRepository
    /\ secure_provider \in {ProviderFor(mod, kw) : mod \in Modes, kw \in KwargNames}

\* the repository's operations
RepoNext ==
    \/ \E name \in Names : CreateService(name)
    \/ \E name \in Names : CreateSecureService(name)

\* the intercepted calls made through the adaptors of a repository
AdaptorNext ==
    \/ \E name \in Names : CreateSecureService(name)
    \/ \E a \in DOMAIN adaptors, shape \in CallShapes : Call(a, shape)
    \/ \E i \in DOMAIN calls, ticket \in Tickets : FetchOk(i, ticket)
    \/ \E i \in DOMAIN calls : FetchFail(i)
    \/ \E i \in DOMAIN calls : FetchCancelled(i)
    \/ \E i \in DOMAIN calls, r \in RemoteResults : RemoteReturn(i, r)
    \/ Tick

\* connect and disconnect through the adaptors
LifecycleNext ==
    \/ \E a \in DOMAIN adaptors, traceid \in TraceIds : Connect(a, traceid)
    \/ \E a \in DOMAIN adaptors : Disconnect(a)

\* fetch_token() on the repository's provider
ProviderNext ==
    \/ ProviderFetch
    \/ \E ticket \in Tickets : TicketArrives(ticket)
    \/ TicketFails

Next ==
    \/ RepoNext
    \/ AdaptorNext
    \/ LifecycleNext
    \/ ProviderNext

\* every operation, in any interleaving
Spec == Init /\ [][Next]_vars

\* the provider selected for a mod, taken on its own
SpecProvider == InitProvider /\ [][ProviderNext]_vars

\* a repository whose callers create handles and connect or disconnect them
SpecRepo == Init /\ [][RepoNext \/ LifecycleNext]_vars

\* create_service leaves the adaptors and their calls alone, and connect and
\* disconnect leave the stored tokens alone: the token lifecycle is explored
\* without them
SpecAdaptor == Init /\ [][AdaptorNext]_vars

\* the token lifecycle together with connect and disconnect
SpecLifecycle == Init /\ [][AdaptorNext \/ LifecycleNext]_vars

\* ------------------------------------------------------------------ claims

ServicesMade(name) == {m \in made : m.cls = "Service" /\ m.name = name}

AdaptorsMade(name) == {m \in made : m.cls = "SecureServiceAdaptor" /\ m.name = name}

Returned(op, name) == {r.obj : r \in {q \in returned : q.op = op /\ q.name = name}}

\* C1: on one repository every create_service call for a name, the locator's
\* name included, returns the same object, and at most one Service is
\* constructed per name.
C1_SameHandlePerName ==
    \A name \in Names :
        /\ Cardinality(Returned("create_service", name)) <= 1
        /\ Cardinality(ServicesMade(name)) <= 1

\* create_service has run at least twice for "node" (once on behalf of
\* create_secure_service) and has returned for the locator's name
C1_Witness ==
    /\ Returned("create_service", "node") # {}
    /\ Returned("create_secure_service", "node") # {}
    /\ Returned("create_service", LOCATOR_SERVICE_NAME) = {LocatorObj}
    /\ Cardinality(ServicesMade("node")) = 1

\* C2: at most one SecureServiceAdaptor exists per name, and it wraps the
\* object create_service(name) returns, whichever of create_service and
\* create_secure_service ran first for the name.
C2_OneAdaptorWrapsCachedHandle ==
    \A name \in Names :
        /\ Cardinality(AdaptorsMade(name)) <= 1
        /\ \A aid \in Returned("create_secure_service", name) :
              /\ aid \in DOMAIN adaptors
              /\ adaptors[aid].wrapped = CreateServiceResult(cache, name, next_id)
              /\ Returned("create_service", name) \subseteq {adaptors[aid].wrapped}

\* create_secure_service("node") ran after create_service("node") (the two
\* identities are not consecutive: another adaptor was built in between), and
\* both operations have returned for the locator's name
C2_Witness ==
    /\ Returned("create_service", LOCATOR_SERVICE_NAME) # {}
    /\ \E aid \in Returned("create_secure_service", LOCATOR_SERVICE_NAME) :
          adaptors[aid].wrapped = LocatorObj
    /\ \E aid \in Returned("create_secure_service", "node") :
          /\ Returned("create_service", "node") = {adaptors[aid].wrapped}
          /\ aid > adaptors[aid].wrapped + 1

\* the authorization keyword argument of a forwarded call
Auth(v) == (CHOOSE p \in v.kwargs : p[1] = "authorization")[2]

\* the intercepted calls issued on adaptor a
CallsOn(a) == {i \in DOMAIN calls : calls[i].adaptor = a}

\* C3: no intercepted call is forwarded with the initial unset token: the
\* first intercepted call on an adaptor starts a fetch, and every forwarded
\* call carries a token that a successful fetch_token of its adaptor returned.
C3_NeverForwardsUnsetToken ==
    /\ \A v \in invocations :
          /\ \E p \in v.kwargs : p[1] = "authorization"
          /\ Auth(v) # None
          /\ Auth(v) \in issued[calls[v.call].adaptor]
    /\ \A i \in DOMAIN calls :
          (\A j \in 1..(i - 1) : calls[j].adaptor # calls[i].adaptor)
              => calls[i].fetched

\* the first call on an adaptor failed to fetch, and a second call on it
\* fetched and was forwarded
C3_Witness ==
    /\ Len(calls) = 2
    /\ calls[1].adaptor = calls[2].adaptor
    /\ calls[1].result = "SecureServiceError"
    /\ calls[2].fetched
    /\ \E v \in invocations : v.call = 2

\* C4 as stated: with expiration interval 0, once a fetch_token of an adaptor
\* has succeeded the adaptor never calls fetch_token again.
C4_FetchesOnlyOnce ==
    [][token_expiration_s = 0 =>
          \A a \in DOMAIN adaptors :
              issued[a] # {} => fetch_count'[a] = fetch_count[a]]_vars

\* C4 as amended: with expiration interval 0 the stored expiry is the clock
\* reading at which the last successful fetch completed, so it is never ahead
\* of the clock and no stored token is reused: every intercepted call calls
\* fetch_token itself, once.
C4_ZeroIntervalFetchesEveryCall ==
    token_expiration_s = 0 =>
        /\ \A i \in DOMAIN calls : calls[i].fetched
        /\ \A a \in DOMAIN adaptors :
              /\ fetch_count[a] = Cardinality(CallsOn(a))
              /\ adaptors[a].to_expire <= now

\* interval 0: a first call fetched a token and completed, and a call whose
\* expiry check came later than that fetch is fetching again
C4_Witness ==
    /\ token_expiration_s = 0
    /\ Len(calls) = 2
    /\ calls[1].adaptor = calls[2].adaptor
    /\ calls[1].pc = "done"
    /\ calls[1].result = "channel"
    /\ calls[2].pc = "fetching"
    /\ adaptors[calls[2].adaptor].token # None
    /\ calls[2].fetch_since > adaptors[calls[2].adaptor].to_expire

\* a step in which the pending fetch_token of call i returns
FetchCompletes(i) ==
    /\ i \in DOMAIN calls
    /\ calls[i].pc = "fetching"
    /\ calls'[i].pc = "invoked"

\* a step in which a new intercepted call is issued
CallIssued == Len(calls') = Len(calls) + 1

\* C5 as stated: with expiration interval T > 0, a call issued at t0 on an
\* expired adaptor fetches and stores the expiry t0 + T.
C5_ExpiryCountsFromCall ==
    [][token_expiration_s > 0 =>
          \A i \in DOMAIN calls :
              FetchCompletes(i) =>
                  adaptors'[calls[i].adaptor].to_expire =
                      calls[i].fetch_since + token_expiration_s]_vars

\* C5 as amended: with T > 0, a fetch that completes at clock reading t1
\* stores its token with expiry t1 + T (t0 + T only when the clock did not
\* advance while the fetch was pending); a call whose expiry check reads a
\* clock below the stored expiry reuses the stored token without fetching,
\* and a call whose check reads a clock at or above it starts exactly one
\* fetch.
C5_ExpiryCountsFromFetchCompletion ==
    [][token_expiration_s > 0 =>
          /\ \A i \in DOMAIN calls :
                FetchCompletes(i) =>
                    /\ adaptors'[calls[i].adaptor].to_expire =
                           now + token_expiration_s
                    /\ adaptors'[calls[i].adaptor].token = calls'[i].token
          /\ CallIssued =>
                LET i == Len(calls')
                    a == calls'[i].adaptor
                IN IF now < adaptors[a].to_expire
                   THEN /\ calls'[i].pc = "invoked"
                        /\ ~calls'[i].fetched
                        /\ calls'[i].token = adaptors[a].token
                        /\ fetch_count' = fetch_count
                        /\ adaptors' = adaptors
                   ELSE /\ calls'[i].pc = "fetching"
                        /\ fetch_count'[a] = fetch_count[a] + 1
                        /\ adaptors' = adaptors]_vars

\* T > 0: the first call's fetch completed after the clock had advanced past
\* its first reading (1), and a second call, whose check read a clock below
\* the stored expiry, was forwarded with the stored token and no fetch
C5_Witness ==
    /\ token_expiration_s > 0
    /\ Len(calls) = 2
    /\ calls[1].adaptor = calls[2].adaptor
    /\ calls[1].fetched
    /\ ~calls[2].fetched
    /\ calls[2].pc = "invoked"
    /\ calls[2].token = adaptors[calls[2].adaptor].token
    /\ adaptors[calls[2].adaptor].to_expire - token_expiration_s > 1
    /\ fetch_count[calls[2].adaptor] = 1

\* a step in which the pending fetch_token of call i raises
FetchFails(i) ==
    /\ i \in DOMAIN calls
    /\ calls[i].pc = "fetching"
    /\ calls'[i].pc = "done"

\* a step in which the pending fetch_token of call i is given up
FetchDropped(i) ==
    /\ i \in DOMAIN calls
    /\ calls[i].pc = "fetching"
    /\ calls'[i].pc = "cancelled"

\* a step in which the wrapped method of call i answers
RemoteAnswers(i) ==
    /\ i \in DOMAIN calls
    /\ calls[i].pc = "invoked"
    /\ calls'[i].pc = "done"

\* the forwarded calls made on behalf of intercepted call i
InvocationsOf(i) == {v \in invocations : v.call = i}

\* C6: when fetch_token fails during an intercepted call, the call ends with
\* SecureServiceError and the wrapped method is never invoked for it, with or
\* without a token stored from before.
C6_FailedFetchAbortsCall ==
    /\ [][\A i \in DOMAIN calls :
              FetchFails(i) =>
                  /\ calls'[i].result = "SecureServiceError"
                  /\ calls'[i].invoked = 0
                  /\ invocations' = invocations]_vars
    /\ [](\A i \in DOMAIN calls :
              (calls[i].pc = "done" /\ calls[i].remote = None) =>
                  /\ calls[i].result = "SecureServiceError"
                  /\ calls[i].invoked = 0
                  /\ InvocationsOf(i) = {})

\* a refresh failed while the token of an earlier call was stored: the
\* second call ended with the error and only the first was forwarded
C6_Witness ==
    /\ Len(calls) = 2
    /\ calls[1].adaptor = calls[2].adaptor
    /\ calls[1].invoked = 1
    /\ adaptors[calls[2].adaptor].token = calls[1].token
    /\ calls[1].token # None
    /\ calls[2].result = "SecureServiceError"
    /\ {v.call : v \in invocations} = {1}

\* C7: the stored token and the stored expiry of an adaptor change only in a
\* step in which one of its fetch_token calls returns; a fetch that fails or
\* is given up leaves both as they were.
C7_StateChangesOnlyOnSuccessfulFetch ==
    [][/\ \A a \in DOMAIN adaptors :
              adaptors'[a] # adaptors[a] =>
                  \E i \in DOMAIN calls :
                      FetchCompletes(i) /\ calls[i].adaptor = a
       /\ \A i \in DOMAIN calls :
              (FetchFails(i) \/ FetchDropped(i)) => adaptors' = adaptors]_vars

\* an adaptor holds a fetched token that has expired, and a fetch_token of
\* one of its calls has failed
C7_Witness ==
    /\ \E a \in DOMAIN adaptors :
          /\ adaptors[a].token \in issued[a]
          /\ adaptors[a].to_expire <= now
          /\ \E i \in CallsOn(a) : calls[i].result = "SecureServiceError"

\* C8: an adaptor makes no fetch_token call before its first intercepted
\* call (nor does the repository that built it); connect and disconnect
\* reach the wrapped handle without a fetch, without a credential and
\* without a change of the stored token or expiry.
C8_LazyFetchAndPlainLifecycle ==
    /\ [](\A a \in DOMAIN adaptors :
              CallsOn(a) = {} =>
                  /\ fetch_count[a] = 0
                  /\ issued[a] = {}
                  /\ adaptors[a].token = None
                  /\ adaptors[a].to_expire = 0)
    /\ [](lifecycle # NoInvocation =>
              /\ lifecycle.kwargs = {}
              /\ \E a \in DOMAIN adaptors : lifecycle.handle = adaptors[a].wrapped
              /\ \/ lifecycle.method = "connect" /\ Len(lifecycle.args) = 1
                 \/ lifecycle.method = "disconnect" /\ lifecycle.args = <<>>)
    /\ [][lifecycle' # lifecycle =>
              /\ fetch_count' = fetch_count
              /\ issued' = issued
              /\ adaptors' = adaptors
              /\ calls' = calls
              /\ invocations' = invocations]_vars

\* connect was forwarded to the handle of an adaptor that holds a fetched
\* token, while another adaptor has had no intercepted call and no fetch
C8_Witness ==
    /\ lifecycle.method = "connect"
    /\ \E a \in DOMAIN adaptors :
          /\ lifecycle.handle = adaptors[a].wrapped
          /\ adaptors[a].token \in issued[a]
          /\ fetch_count[a] = 1
    /\ \E b \in DOMAIN adaptors : CallsOn(b) = {} /\ fetch_count[b] = 0

\* the keyword arguments other than authorization
Plain(kwargs) == {p \in kwargs : p[1] # "authorization"}

\* C9: every forwarded call goes to the wrapped handle's method of the same
\* name with the caller's positional arguments and the caller's keyword
\* arguments, authorization being set to the token resolved for the call and
\* nothing else altered.
C9_ForwardsArgumentsWithToken ==
    \A v \in invocations :
        LET c == calls[v.call]
        IN /\ c.invoked = 1
           /\ v.handle = adaptors[c.adaptor].wrapped
           /\ v.method = c.method
           /\ v.args = c.args
           /\ Plain(v.kwargs) = Plain(c.kwargs)
           /\ {p \in v.kwargs : p[1] = "authorization"} =
                  {<<"authorization", c.token>>}
           /\ c.token \in issued[c.adaptor]

\* a call with two positional arguments, a timeout and an authorization of
\* the caller's own was forwarded, and so was a call without keyword arguments
C9_Witness ==
    /\ \E v \in invocations :
          /\ v.method = "write"
          /\ <<"authorization", "forged">> \in calls[v.call].kwargs
          /\ <<"timeout", "5">> \in v.kwargs
    /\ \E v \in invocations : v.method = "read" /\ calls[v.call].kwargs = {}

\* C10: once the token of a call is resolved the wrapped method is invoked
\* once, and its answer, a failure included, is what the caller gets: the
\* answer causes no second invocation, no fetch, no SecureServiceError and no
\* change of the stored token or expiry.
C10_RemoteResultPassesThrough ==
    /\ [](\A i \in DOMAIN calls :
              /\ calls[i].pc \in {"invoked", "done"} /\ calls[i].token # None =>
                    /\ calls[i].invoked = 1
                    /\ Cardinality(InvocationsOf(i)) = 1
              /\ calls[i].remote # None =>
                    /\ calls[i].pc = "done"
                    /\ calls[i].result = calls[i].remote)
    /\ [][\A i \in DOMAIN calls :
              RemoteAnswers(i) =>
                  /\ calls'[i].remote \in RemoteResults
                  /\ calls'[i].invoked = calls[i].invoked
                  /\ invocations' = invocations
                  /\ fetch_count' = fetch_count
                  /\ adaptors' = adaptors]_vars

\* the wrapped method failed for a call that had fetched its token: the
\* caller got ServiceError, one forwarded call, one fetch, the token kept
C10_Witness ==
    \E i \in DOMAIN calls :
        /\ calls[i].fetched
        /\ calls[i].result = "ServiceError"
        /\ Cardinality(InvocationsOf(i)) = 1
        /\ fetch_count[calls[i].adaptor] = 1
        /\ adaptors[calls[i].adaptor].token = calls[i].token

\* the objects constructed so far
MadeIds(cls, name) == {m.id : m \in {q \in made : q.cls = cls /\ q.name = name}}

\* C11: create_service and create_secure_service have no suspension point,
\* so the first requests of concurrent tasks for a name run one after the
\* other, in any order: every caller of an operation gets the one instance
\* the cache holds for the name, and every object constructed for the name
\* is that instance (none is built twice or left outside the caches).
C11_FirstRequestsShareOneInstance ==
    \A name \in Names :
        /\ Returned("create_secure_service", name) \subseteq
              {cache_secured[n] : n \in DOMAIN cache_secured \cap {name}}
        /\ MadeIds("SecureServiceAdaptor", name) =
              {cache_secured[n] : n \in DOMAIN cache_secured \cap {name}}
        /\ MadeIds("Service", name) = {cache[n] : n \in DOMAIN cache \cap {name}}
        /\ Returned("create_service", name) \subseteq
              (IF name = LOCATOR_SERVICE_NAME
               THEN {LocatorObj}
               ELSE {cache[n] : n \in DOMAIN cache \cap {name}})

\* for each name both operations have answered their callers, and three
\* objects exist in all: one Service and the two adaptors
C11_Witness ==
    /\ \A name \in Names :
          /\ Returned("create_service", name) # {}
          /\ Returned("create_secure_service", name) # {}
    /\ Cardinality(made) = 3

\* C12: two calls whose expiry checks both found the token expired each
\* fetch; each fetch, as it completes, overwrites the stored token and expiry
\* with its own token and its own completion time, so what is stored is what
\* the fetch completing last wrote; and each call is forwarded with a token
\* that a successful fetch returned.
C12_ConcurrentFetchesLastWriteWins ==
    /\ [](\A i \in DOMAIN calls :
            (calls[i].fetched /\ calls[i].pc \in {"invoked", "done"} /\
             calls[i].result # "SecureServiceError") =>
                /\ calls[i].invoked = 1
                /\ calls[i].got \in issued[calls[i].adaptor]
                /\ \A v \in InvocationsOf(i) : Auth(v) \in issued[calls[i].adaptor])
    /\ [][\A i \in DOMAIN calls :
            FetchCompletes(i) =>
                /\ adaptors'[calls[i].adaptor].token = calls'[i].got
                /\ adaptors'[calls[i].adaptor].to_expire =
                      now + adaptors[calls[i].adaptor].token_expiration_s
                /\ calls'[i].got \in issued'[calls[i].adaptor]]_vars

\* with an interval of 2, two calls on one adaptor have both fetched and been
\* forwarded, with different tokens, and the expiry stored is below 5: the
\* second fetch did not wait for the first token to expire, the two
\* overlapped; the stored token is the second call's
C12_Witness ==
    /\ Len(calls) = 2
    /\ token_expiration_s = 2
    /\ calls[1].adaptor = calls[2].adaptor
    /\ calls[1].fetched /\ calls[2].fetched
    /\ calls[1].invoked = 1 /\ calls[2].invoked = 1
    /\ calls[1].got # calls[2].got
    /\ adaptors[calls[1].adaptor].token = calls[2].got
    /\ adaptors[calls[1].adaptor].to_expire < 5

\* the calls whose fetch_token() has not returned (and may never)
Waiting == {i \in DOMAIN calls : calls[i].pc \in {"fetching", "cancelled"}}

\* C13: a call whose fetch_token() has not completed, or never will, is not
\* forwarded and does not end; it holds up no other call on the adaptor: the
\* fetch of any other waiting call can complete, whatever ticket it brings, a
\* further call can be issued, and a call whose own fetch did complete has
\* been forwarded with the token of that fetch.
C13_HungFetchBlocksOnlyItsCall ==
    \A i \in Waiting :
        /\ calls[i].invoked = 0
        /\ InvocationsOf(i) = {}
        /\ calls[i].result = None
        /\ \A j \in CallsOn(calls[i].adaptor) \ {i} :
              /\ calls[j].pc = "fetching" =>
                    \A ticket \in Tickets : ENABLED FetchOk(j, ticket)
              /\ calls[j].got # None =>
                    /\ calls[j].invoked = 1
                    /\ \E v \in InvocationsOf(j) : Auth(v) = calls[j].got
        /\ Len(calls) < MaxCalls =>
              \A shape \in CallShapes : ENABLED Call(calls[i].adaptor, shape)

\* the first call's fetch was dropped for good, and the second call on the
\* same adaptor, issued after it, fetched, was forwarded and was answered
C13_Witness ==
    /\ Len(calls) = 2
    /\ calls[1].adaptor = calls[2].adaptor
    /\ calls[1].pc = "cancelled"
    /\ calls[2].got # None
    /\ calls[2].pc = "done"
    /\ calls[2].remote = "channel"

\* C14: the provider selected for mod returns "TVM " + ticket when mod is
\* exactly "TVM", "TVM2 " + ticket when mod is exactly "TVM2" and '' for any
\* other mod; for any other mod no ticket service is built, none is called,
\* and construction raises nothing whatever keyword arguments come with it.
C14_ProviderSelectedByExactMode ==
    LET p == secure_provider
        tokens == {p.fetched[k] : k \in DOMAIN p.fetched}
    IN /\ p.mod = "TVM" =>
            /\ p.ticket_service = "tvm"
            /\ \A f \in tokens : f.ticket \in Tickets /\ f.token = "TVM " \o f.ticket
       /\ p.mod = "TVM2" =>
            /\ p.ticket_service = "tvm2"
            /\ \A f \in tokens : f.ticket \in Tickets /\ f.token = "TVM2 " \o f.ticket
       /\ p.mod \notin {"TVM", "TVM2"} =>
            /\ p.obj.cls = "Promiscuous"
            /\ p.ticket_service = None
            /\ p.requests = <<>>
            /\ p.pending = 0
            /\ \A f \in tokens : f.token = ""

\* a provider built for "TVM2" called its ticket service with the two
\* credentials and returned "TVM2 xyz" for the ticket "xyz"
C14_Witness ==
    /\ secure_provider.mod = "TVM2"
    /\ \E k \in DOMAIN secure_provider.fetched :
          /\ secure_provider.fetched[k].ticket = "xyz"
          /\ secure_provider.fetched[k].token = "TVM2 xyz"
    /\ \E k \in DOMAIN secure_provider.requests :
          /\ secure_provider.requests[k].service = "tvm2"
          /\ secure_provider.requests[k].method = "ticket"

\* the states of the token lifecycle
Unfetched(ad) == ad.token = None

Valid(ad, t) == ad.token # None /\ ~IsExpired(t, ad.to_expire)

Expired(ad, t) == ad.token # None /\ IsExpired(t, ad.to_expire)

\* what C15 and its amended form share: a call issued on an adaptor that is
\* unfetched or expired starts a fetch, however many fetches failed before;
\* a failed fetch leaves the adaptor as it was, unfetched if it was; a stored
\* token is never unset
NoStickyState ==
    /\ CallIssued =>
          LET i == Len(calls')
              a == calls'[i].adaptor
          IN (Unfetched(adaptors[a]) \/ Expired(adaptors[a], now)) =>
                /\ calls'[i].pc = "fetching"
                /\ fetch_count'[a] = fetch_count[a] + 1
    /\ \A i \in DOMAIN calls :
          FetchFails(i) =>
              /\ adaptors'[calls[i].adaptor] = adaptors[calls[i].adaptor]
              /\ calls'[i].result = "SecureServiceError"
    /\ \A a \in DOMAIN adaptors :
          ~Unfetched(adaptors[a]) => ~Unfetched(adaptors'[a])

\* C15 as stated: no terminal or sticky state, and a fetch that succeeds
\* leaves the adaptor valid
C15_SuccessfulFetchReachesValid ==
    [][/\ NoStickyState
       /\ \A i \in DOMAIN calls :
             FetchCompletes(i) => Valid(adaptors'[calls[i].adaptor], now')]_vars

\* C15 as amended: no terminal or sticky state; a fetch that succeeds stores
\* its token, which leaves the adaptor valid when the interval is positive
\* and expired at once when the interval is 0
C15_NoStickyStateValidIfPositiveInterval ==
    [][/\ NoStickyState
       /\ \A i \in DOMAIN calls :
             FetchCompletes(i) =>
                 LET ad == adaptors'[calls[i].adaptor]
                 IN IF ad.token_expiration_s > 0
                    THEN Valid(ad, now')
                    ELSE Expired(ad, now')]_vars

\* the first call's fetch failed on an unfetched adaptor, the second call
\* on that adaptor fetched again with success, and the adaptor is valid
C15_Witness ==
    /\ Len(calls) = 2
    /\ calls[1].adaptor = calls[2].adaptor
    /\ calls[1].fetched /\ calls[1].result = "SecureServiceError"
    /\ calls[2].fetched /\ calls[2].got # None
    /\ issued[calls[1].adaptor] = {calls[2].got}
    /\ Valid(adaptors[calls[1].adaptor], now)

\* C16 as stated: whatever create_service(name) returned is what the plain
\* cache holds under name, the locator's name included
C16_EveryReturnedHandleIsCached ==
    \A r \in returned :
        r.op = "create_service" =>
            /\ r.name \in DOMAIN cache
            /\ cache[r.name] = r.obj

\* C16 as amended: for a name other than the locator's, what create_service
\* returned is what the plain cache holds under the name; for the locator's
\* name the locator itself was returned and the plain cache never gets an
\* entry under that name
C16_ReturnedHandleIsCachedButLocator ==
    /\ \A r \in returned :
          r.op = "create_service" =>
              IF r.name = LOCATOR_SERVICE_NAME
              THEN r.obj = LocatorObj
              ELSE r.name \in DOMAIN cache /\ cache[r.name] = r.obj
    /\ LOCATOR_SERVICE_NAME \notin DOMAIN cache

\* create_service returned for the locator's name and for another name, and
\* the plain cache holds the other name only
C16_Witness ==
    /\ Returned("create_service", LOCATOR_SERVICE_NAME) = {LocatorObj}
    /\ Returned("create_service", "node") # {}
    /\ DOMAIN cache = {"node"}

\* C17: the two caches only grow, entry by entry, and an entry never changes;
\* create_service leaves the secure cache alone; a hit in either operation
\* leaves both caches alone.
C17_CachesSeparateAndGrowOnly ==
    [][/\ \A n \in DOMAIN cache : n \in DOMAIN cache' /\ cache'[n] = cache[n]
       /\ \A n \in DOMAIN cache_secured :
             n \in DOMAIN cache_secured' /\ cache_secured'[n] = cache_secured[n]
       /\ \A name \in Names :
             /\ CreateService(name) => cache_secured' = cache_secured
             /\ (CreateService(name) /\ name \in DOMAIN cache) => cache' = cache
             /\ (CreateSecureService(name) /\ name \in DOMAIN cache_secured) =>
                   cache' = cache /\ cache_secured' = cache_secured]_vars

\* both caches are filled as far as they go, with three different objects,
\* and each operation has answered for each name
C17_Witness ==
    /\ DOMAIN cache = {"node"}
    /\ DOMAIN cache_secured = Names
    /\ cache["node"] # cache_secured["node"]
    /\ cache_secured[LOCATOR_SERVICE_NAME] # cache_secured["node"]
    /\ Cardinality(returned) = 4

\* C18: token and expiry are written in one step, by a fetch as it completes:
\* between steps a non-zero expiry comes with a stored token that a fetch of
\* this adaptor returned, and the expiry less the interval is a clock reading
\* already past (the completion time); a step changes an adaptor's token or
\* expiry only as the completion of a fetch on it, writing that fetch's token
\* and its completion time plus the interval; so a call that reuses the
\* stored token attaches a token fetched less than the interval before its
\* expiry check.
C18_TokenAndExpiryWrittenTogether ==
    /\ [](\A a \in DOMAIN adaptors :
            /\ adaptors[a].token = None => adaptors[a].to_expire = 0
            /\ adaptors[a].to_expire # 0 =>
                  /\ adaptors[a].token \in issued[a]
                  /\ adaptors[a].to_expire - adaptors[a].token_expiration_s \in 1..now)
    /\ [][/\ \A a \in DOMAIN adaptors :
                adaptors'[a] # adaptors[a] =>
                    \E i \in CallsOn(a) :
                        /\ FetchCompletes(i)
                        /\ adaptors'[a] =
                              [adaptors[a] EXCEPT
                                 !.token = calls'[i].got,
                                 !.to_expire = now + adaptors[a].token_expiration_s]
          /\ CallIssued =>
                LET i == Len(calls')
                    ad == adaptors[calls'[i].adaptor]
                IN ~calls'[i].fetched =>
                      /\ ad.token # None
                      /\ \A v \in invocations' \ invocations : Auth(v) = ad.token
                      /\ now - (ad.to_expire - ad.token_expiration_s) <
                            ad.token_expiration_s]_vars

\* with the interval 2, the first call's fetch completed at the clock
\* reading 1 and the second call reused its token; the clock reads 2 now
C18_Witness ==
    /\ Len(calls) = 2
    /\ calls[1].adaptor = calls[2].adaptor
    /\ calls[1].got # None
    /\ ~calls[2].fetched
    /\ calls[2].invoked = 1
    /\ calls[2].token = calls[1].got
    /\ adaptors[calls[1].adaptor].to_expire = 3
    /\ now = 2

\* C19: a call that fetched is forwarded with the token its own fetch
\* returned, whatever the adaptor stores by then.
C19_FetchingCallAttachesOwnToken ==
    \A i \in DOMAIN calls :
        calls[i].got # None =>
            /\ calls[i].token = calls[i].got
            /\ InvocationsOf(i) # {}
            /\ \A v \in InvocationsOf(i) : Auth(v) = calls[i].got

\* with an interval of 2, the second call's fetch began and completed while
\* the first call's fetch was pending, then the first call's fetch completed
\* and overwrote the stored token: each call was forwarded with its own token
C19_Witness ==
    /\ Len(calls) = 2
    /\ token_expiration_s = 2
    /\ calls[1].adaptor = calls[2].adaptor
    /\ calls[1].got # None /\ calls[2].got # None
    /\ calls[1].got # calls[2].got
    /\ adaptors[calls[1].adaptor].token = calls[1].got
    /\ adaptors[calls[1].adaptor].to_expire < 5
    /\ \E v \in InvocationsOf(2) : Auth(v) # adaptors[calls[1].adaptor].token

\* C20: the adaptors of a repository hold the repository's one provider, and
\* each keeps its own token and expiry: an adaptor no call has fetched on is
\* unfetched whatever the others store, the first call on each adaptor
\* fetches, and a step changes the token or expiry of one adaptor at most,
\* that of the call which moves in the step.
C20_AdaptorsShareProviderNotState ==
    /\ [](\A a \in DOMAIN adaptors :
            /\ adaptors[a].secure = secure_provider.obj
            /\ fetch_count[a] = 0 =>
                  adaptors[a].token = None /\ adaptors[a].to_expire = 0
            /\ \A i \in CallsOn(a) :
                  (\A j \in CallsOn(a) : i <= j) => calls[i].fetched)
    /\ [][\A a \in DOMAIN adaptors :
            adaptors'[a] # adaptors[a] =>
                /\ \E i \in CallsOn(a) : calls'[i] # calls[i]
                /\ \A b \in DOMAIN adaptors \ {a} : adaptors'[b] = adaptors[b]]_vars

\* the adaptor the first call went through holds that call's token, and the
\* other adaptor, made for the other name, had to fetch for its own first
\* call and holds a different token
C20_Witness ==
    /\ Len(calls) = 2
    /\ DOMAIN cache_secured = Names
    /\ calls[1].adaptor # calls[2].adaptor
    /\ calls[1].got # None /\ calls[2].got # None
    /\ adaptors[calls[1].adaptor].token = calls[1].got
    /\ adaptors[calls[2].adaptor].token = calls[2].got
    /\ calls[1].got # calls[2].got
    /\ fetch_count[calls[1].adaptor] = 1 /\ fetch_count[calls[2].adaptor] = 1

====
